---- MODULE Spec2Model ----
(***************************************************************************)
(* ONNXModelUtils (onnxruntime_extensions/pnp/_utils.py): renaming of      *)
(* graphs under a prefix, topological sort of a node list, pruning of      *)
(* unused initializers and the joining of several models into one.         *)
(*                                                                         *)
(* A tensor or node name is a string; "" is the empty optional slot.  A    *)
(* node is a record [name, op_type, input, output] with input and output   *)
(* sequences of names.  Every method is a pure operator computed the way   *)
(* the Python computes it; a raised exception is a result record whose     *)
(* field "error" names the exception.  One action per method draws the     *)
(* arguments from the bounded sets below, keeps them in "arg", and stores  *)
(* what the call returned (and, where the method hands objects back, what  *)
(* the caller's objects look like afterwards) in "res".                    *)
(***************************************************************************)
EXTENDS Integers, Sequences, FiniteSets, TLC

VARIABLES pc, call, arg, res

vars == <<pc, call, arg, res>>

(***************************************************************************)
(* Bounds of the model.                                                    *)
(***************************************************************************)
\* nodes of a node list handed to topological_sort
MaxNodes == 2
\* node-input slots of such a node list, all nodes together
MaxSlots == 3
\* models handed to join_models
MaxModels == 3
\* nodes of a graph handed to _rename_graph
MaxRenameNodes == 2
\* nodes handed to _remove_unused_initializers
MaxPruneNodes == 2

(***************************************************************************)
(* Helpers on sequences.                                                   *)
(***************************************************************************)
Range(s) == {s[i] : i \in 1..Len(s)}

RECURSIVE SeqsOfLen(_, _)
SeqsOfLen(S, k) ==
    IF k = 0 THEN {<<>>}
    ELSE {<<a>> \o t : a \in S, t \in SeqsOfLen(S, k - 1)}

NoError == "none"

(***************************************************************************)
(* merge_name, _rename_iter, _rename_graph                                 *)
(***************************************************************************)
\* "{}_{}".format(prefix, name)
merge_name(prefix, name) == prefix \o "_" \o name

\* _rename_iter(iterables, prefix_name, inplace): the renamed list it
\* returns, and the caller's list afterwards (renamed too when inplace,
\* untouched when the entries are deep-copied first).  The entries are
\* named objects (initializers, value-info records, declared inputs and
\* outputs), kept here by their names.
_rename_iter(iterables, prefix_name, inplace) ==
    LET new_iz == [i \in 1..Len(iterables) |-> merge_name(prefix_name, iterables[i])]
    IN [ret |-> new_iz, iterables |-> IF inplace THEN new_iz ELSE iterables]

\* io_rename forgetting about the empty slot: every input and output renamed
io_rename_EmptyToo(node, prefix_name, idx) ==
    [name |-> IF node.name = ""
              THEN merge_name(prefix_name, "op" \o ToString(idx))
              ELSE merge_name(prefix_name, node.name),
     op_type |-> node.op_type,
     input |-> [i \in 1..Len(node.input) |-> merge_name(prefix_name, node.input[i])],
     output |-> [i \in 1..Len(node.output) |-> merge_name(prefix_name, node.output[i])]]

\* io_rename(node, prefix_name, idx): the renamed deep copy of node
io_rename(node, prefix_name, idx) ==
    [name |-> IF node.name = ""
              THEN merge_name(prefix_name, "op" \o ToString(idx))
              ELSE merge_name(prefix_name, node.name),
     op_type |-> node.op_type,
     input |-> [i \in 1..Len(node.input) |->
                  IF node.input[i] # "" THEN merge_name(prefix_name, node.input[i])
                  ELSE ""],
     output |-> [i \in 1..Len(node.output) |->
                  IF node.output[i] # "" THEN merge_name(prefix_name, node.output[i])
                  ELSE ""]]

\* _rename_graph(graph, prefix, graph_or_container): the list of renamed
\* nodes it returns (enumerate counts from 0), the container after its two
\* extend calls, and the graph afterwards (only copies are changed).
_rename_graph(graph, prefix, graph_or_container) ==
    [ret |-> [i \in 1..Len(graph.node) |-> io_rename(graph.node[i], prefix, i - 1)],
     container |->
        [initializer |-> graph_or_container.initializer
                            \o _rename_iter(graph.initializer, prefix, FALSE).ret,
         value_info |-> graph_or_container.value_info
                            \o _rename_iter(graph.value_info, prefix, FALSE).ret],
     graph |-> graph]

(***************************************************************************)
(* _remove_unused_initializers(nodes, initializers, reversed_names)        *)
(***************************************************************************)
\* for nd_ in nodes: nodes_input_set.update(n_ for n_ in nd_.input)
RECURSIVE NodesInputSet(_, _, _)
NodesInputSet(nodes, i, acc) ==
    IF i > Len(nodes) THEN acc
    ELSE NodesInputSet(nodes, i + 1, acc \cup Range(nodes[i].input))

\* [intlz_ for intlz_ in initializers if ... in nodes_input_set or ... in reversed_names]
RECURSIVE KeepInitializers(_, _, _, _)
KeepInitializers(initializers, i, nodes_input_set, reversed_names) ==
    IF i > Len(initializers) THEN <<>>
    ELSE (IF initializers[i] \in nodes_input_set \/ initializers[i] \in reversed_names
          THEN <<initializers[i]>> ELSE <<>>)
         \o KeepInitializers(initializers, i + 1, nodes_input_set, reversed_names)

\* the pruner forgetting the caller's keep set
_remove_unused_initializers_NoKeep(nodes, initializers, reversed_names) ==
    [ret |-> KeepInitializers(initializers, 1, NodesInputSet(nodes, 1, {}), {}),
     nodes |-> nodes,
     initializers |-> initializers]

\* the returned list, and the caller's two lists afterwards (never written)
_remove_unused_initializers(nodes, initializers, reversed_names) ==
    [ret |-> KeepInitializers(initializers, 1, NodesInputSet(nodes, 1, {}),
                              reversed_names),
     nodes |-> nodes,
     initializers |-> initializers]

(***************************************************************************)
(* join_models(models..., io_mapping=None)                                 *)
(* A model is kept as its graph [name, node, input, output, initializer,   *)
(* value_info] with its opset_import, a sequence of [domain, version].     *)
(***************************************************************************)
None == [kind |-> "None"]

\* mdl_prefix: "g{}".format(_i + 1) for _i in range(len(models))
MdlPrefix(n) == [i \in 1..n |-> "g" \o ToString(i)]

\* ports.append(ModelPort([prefixed inputs], [prefixed outputs]))
Ports(models, mdl_prefix) ==
    [i \in 1..Len(models) |->
        [input |-> [j \in 1..Len(models[i].input) |->
                        merge_name(mdl_prefix[i], models[i].input[j])],
         output |-> [j \in 1..Len(models[i].output) |->
                        merge_name(mdl_prefix[i], models[i].output[j])]]]

\* port_mapping = io_mapping(ports): the caller's function.  The functions
\* of the model return one entry, the consumer and producer being ports
\* picked by graph and position.
CallIoMapping(io_mapping, ports) ==
    (ports[io_mapping.consumer[1]].input[io_mapping.consumer[2]]
        :> ports[io_mapping.producer[1]].output[io_mapping.producer[2]])

\* The default wiring that overwrites whatever the mapping holds
RECURSIVE DefaultWiring_Overwrite(_, _, _, _, _)
DefaultWiring_Overwrite(models, mdl_prefix, idx, i, st) ==
    IF st.error # NoError \/ idx > Len(models) - 1 THEN st
    ELSE IF i > Len(models[idx + 1].input)
    THEN DefaultWiring_Overwrite(models, mdl_prefix, idx + 1, 1, st)
    ELSE LET iname == merge_name(mdl_prefix[idx + 1], models[idx + 1].input[i]) IN
         IF i > Len(models[idx].output)
         THEN [st EXCEPT !.error = "IndexError"]
         ELSE LET oname == merge_name(mdl_prefix[idx], models[idx].output[i])
                  pm == [k \in DOMAIN st.port_mapping \cup {iname} |->
                            IF k = iname THEN oname ELSE st.port_mapping[k]]
              IN DefaultWiring_Overwrite(models, mdl_prefix, idx, i + 1,
                                         [st EXCEPT !.port_mapping = pm])

\* for _idx in range(len(models) - 1):
\*     for _i, _x in enumerate(models[_idx + 1].graph.input): ...
\* st = [port_mapping, error]; output[_i] past the end raises IndexError.
RECURSIVE DefaultWiring(_, _, _, _, _)
DefaultWiring(models, mdl_prefix, idx, i, st) ==
    IF st.error # NoError \/ idx > Len(models) - 1 THEN st
    ELSE IF i > Len(models[idx + 1].input)
    THEN DefaultWiring(models, mdl_prefix, idx + 1, 1, st)
    ELSE LET iname == merge_name(mdl_prefix[idx + 1], models[idx + 1].input[i]) IN
         IF iname \in DOMAIN st.port_mapping
         THEN DefaultWiring(models, mdl_prefix, idx, i + 1, st)
         ELSE IF i > Len(models[idx].output)
         THEN [st EXCEPT !.error = "IndexError"]
         ELSE LET oname == merge_name(mdl_prefix[idx], models[idx].output[i])
                  pm == [k \in DOMAIN st.port_mapping \cup {iname} |->
                            IF k = iname THEN oname ELSE st.port_mapping[k]]
              IN DefaultWiring(models, mdl_prefix, idx, i + 1,
                               [st EXCEPT !.port_mapping = pm])

\* for _idx, _m in enumerate(models):
\*     container.initializer.extend(_m.graph.initializer)
\*     container.value_info.extend(_m.graph.value_info)
\*     nodes += cls._rename_graph(_m.graph, mdl_prefix[_idx], container)
\* st = [nodes, container]
RECURSIVE CollectGraphs(_, _, _, _)
CollectGraphs(models, mdl_prefix, idx, st) ==
    IF idx > Len(models) THEN st
    ELSE LET m == models[idx]
             c1 == [initializer |-> st.container.initializer \o m.initializer,
                    value_info |-> st.container.value_info \o m.value_info]
             r == _rename_graph(m, mdl_prefix[idx], c1)
         IN CollectGraphs(models, mdl_prefix, idx + 1,
                          [nodes |-> st.nodes \o r.ret, container |-> r.container])

\* the rewrite done only for a node whose inputs are all mapped
RewireNode_AllOrNothing(n, port_mapping) ==
    IF \A i \in 1..Len(n.input) : n.input[i] \in DOMAIN port_mapping
    THEN [n EXCEPT !.input = [i \in 1..Len(n.input) |-> port_mapping[n.input[i]]]]
    ELSE n

\* the loop body of lines 181-190 for one node
RewireNode(n, port_mapping) ==
    IF \E i \in 1..Len(n.input) : n.input[i] \in DOMAIN port_mapping
    THEN [n EXCEPT !.input = [i \in 1..Len(n.input) |->
                                IF n.input[i] \in DOMAIN port_mapping
                                THEN port_mapping[n.input[i]] ELSE n.input[i]]]
    ELSE n

\* the opset list and the name: first-seen domain wins, names joined by "_"
RECURSIVE OpsetOfModel(_, _, _)
OpsetOfModel(ops, j, st) ==
    IF j > Len(ops) THEN st
    ELSE IF ops[j].domain \in st.domains
    THEN OpsetOfModel(ops, j + 1, st)
    ELSE OpsetOfModel(ops, j + 1,
            [st EXCEPT !.domains = @ \cup {ops[j].domain},
                       !.opset = Append(@, ops[j])])

RECURSIVE OpsetAndName(_, _, _)
OpsetAndName(models, idx, st) ==
    IF idx > Len(models) THEN st
    ELSE LET s1 == OpsetOfModel(models[idx].opset_import, 1, st)
         IN OpsetAndName(models, idx + 1,
               [s1 EXCEPT !.name = IF @ # "" THEN @ \o "_" \o models[idx].name
                                   ELSE models[idx].name])

\* The whole method.  Result: [error, model]; the model is [graph,
\* opset_import] with graph = [node, name, input, output, initializer,
\* value_info].
join_models(models, io_mapping) ==
    LET mdl_prefix == MdlPrefix(Len(models))
        inputs == _rename_iter(models[1].input, mdl_prefix[1], FALSE).ret
        outputs == _rename_iter(models[Len(models)].output,
                                mdl_prefix[Len(models)], FALSE).ret
        pm0 == IF io_mapping # None
               THEN CallIoMapping(io_mapping, Ports(models, mdl_prefix))
               ELSE [k \in {} |-> ""]
        w == DefaultWiring(models, mdl_prefix, 1, 1,
                           [port_mapping |-> pm0, error |-> NoError])
        c == CollectGraphs(models, mdl_prefix, 1,
                [nodes |-> <<>>,
                 container |-> [initializer |-> <<>>, value_info |-> <<>>]])
        nodes == [i \in 1..Len(c.nodes) |-> RewireNode(c.nodes[i], w.port_mapping)]
        on == OpsetAndName(models, 1, [domains |-> {}, opset |-> <<>>, name |-> ""])
        inits == _remove_unused_initializers(nodes, c.container.initializer, {}).ret
    IN IF w.error # NoError
       THEN [error |-> w.error]
       ELSE [error |-> NoError,
             model |-> [graph |-> [node |-> nodes, name |-> on.name,
                                   input |-> inputs, output |-> outputs,
                                   initializer |-> inits,
                                   value_info |-> c.container.value_info],
                        opset_import |-> on.opset]]

(***************************************************************************)
(* topological_sort(container, nodes, inputs, outputs)                     *)
(***************************************************************************)
\* DynNode(name='placeholder', output=inputs + initializers); it is a
\* namedtuple, never one of the caller's nodes.
PlaceholderNode(inputs, initializers) ==
    [name |-> "placeholder", op_type |-> "<DynNode>", input |-> <<>>,
     output |-> inputs \o initializers]

\* input_nodes = [placeholder] + [nd_ for nd_ in nodes if nd_.op_type == 'Constant']
InputNodes(nodes, inputs, initializers) ==
    <<PlaceholderNode(inputs, initializers)>>
        \o SelectSeq(nodes, LAMBDA nd : nd.op_type = "Constant")

\* for nd_ in ...: for ky_ in nd_.output: op_output_map[ky_] = nd_
\* (a later assignment of the same key replaces the earlier one)
RECURSIVE BuildOutputMap(_, _, _)
BuildOutputMap(nds, i, map) ==
    IF i > Len(nds) THEN map
    ELSE LET nd == nds[i]
             keys == Range(nd.output)
         IN BuildOutputMap(nds, i + 1,
                [k \in DOMAIN map \cup keys |->
                    IF k \in keys THEN nd ELSE map[k]])

EmptyMap == [k \in {} |-> 0]

OpOutputMap(nodes, input_nodes) ==
    BuildOutputMap(nodes \o input_nodes, 1, EmptyMap)

\* EdgesOfNode without the skip of the empty slot (lines 94-95 left out)
RECURSIVE EdgesOfNode_NoEmptySkip(_, _, _, _)
EdgesOfNode_NoEmptySkip(op, j, op_output_map, st) ==
    IF j > Len(op.input) THEN st
    ELSE LET x == op.input[j] IN
         IF x \notin DOMAIN op_output_map
         THEN [st EXCEPT !.error = "cannot find an operator to produce the tensor",
                         !.node = op.name, !.tensor = x]
         ELSE LET pname == op_output_map[x].name
                  val == IF pname \in DOMAIN st.edges THEN st.edges[pname] ELSE <<>>
                  e2 == [k \in DOMAIN st.edges \cup {pname} |->
                            IF k = pname THEN Append(val, op) ELSE st.edges[k]]
              IN EdgesOfNode_NoEmptySkip(op, j + 1, op_output_map,
                                         [st EXCEPT !.edges = e2])

\* The loop over op.input of one node: an edge predecessor.name -> op for
\* every non-empty input, RuntimeError at the first input without producer.
RECURSIVE EdgesOfNode(_, _, _, _)
EdgesOfNode(op, j, op_output_map, st) ==
    IF j > Len(op.input) THEN st
    ELSE LET x == op.input[j] IN
         IF x = "" THEN EdgesOfNode(op, j + 1, op_output_map, st)
         ELSE IF x \notin DOMAIN op_output_map
         THEN [st EXCEPT !.error = "cannot find an operator to produce the tensor",
                         !.node = op.name, !.tensor = x]
         ELSE LET pname == op_output_map[x].name
                  val == IF pname \in DOMAIN st.edges THEN st.edges[pname] ELSE <<>>
                  e2 == [k \in DOMAIN st.edges \cup {pname} |->
                            IF k = pname THEN Append(val, op) ELSE st.edges[k]]
              IN EdgesOfNode(op, j + 1, op_output_map, [st EXCEPT !.edges = e2])

RECURSIVE BuildEdges(_, _, _, _)
BuildEdges(nodes, i, op_output_map, st) ==
    IF i > Len(nodes) \/ st.error # NoError THEN st
    ELSE BuildEdges(nodes, i + 1, op_output_map,
                    EdgesOfNode(nodes[i], 1, op_output_map, st))

\* for y_ in outputs: op = op_output_map[y_.name].name; edges.setdefault(op, [])
RECURSIVE AddOutputEdges(_, _, _, _)
AddOutputEdges(outputs, i, op_output_map, st) ==
    IF i > Len(outputs) \/ st.error # NoError THEN st
    ELSE IF outputs[i] \notin DOMAIN op_output_map
    THEN [st EXCEPT !.error = "KeyError", !.tensor = outputs[i]]
    ELSE LET op == op_output_map[outputs[i]].name
             e2 == [k \in DOMAIN st.edges \cup {op} |->
                        IF k \in DOMAIN st.edges THEN st.edges[k] ELSE <<>>]
         IN AddOutputEdges(outputs, i + 1, op_output_map, [st EXCEPT !.edges = e2])

\* sorted_nodes.append(node) in place of insert(0, node)
InsertBack(sorted, node) == sorted \o <<node>>

\* sorted_nodes.insert(0, node)
InsertFront(sorted, node) == <<node>> \o sorted

RECURSIVE recursive_helper(_, _, _, _)
RECURSIVE VisitSuccessors(_, _, _, _, _)

\* st = [visited, unfinished, sorted_nodes, error, node]
recursive_helper(node, edges, first, st) ==
    IF st.error # NoError THEN st
    ELSE IF node.name \in st.visited THEN st
    ELSE IF node.name \in st.unfinished
    THEN [st EXCEPT !.error = "ONNX Graph is not a DAG", !.node = node.name]
    ELSE LET s1 == [st EXCEPT !.unfinished = @ \cup {node.name}]
             s2 == IF node.name \in DOMAIN edges
                   THEN IF node.name = ""
                        THEN [s1 EXCEPT !.error = "AssertionError"]
                        ELSE VisitSuccessors(edges[node.name], 1, edges, first, s1)
                   ELSE s1
         IN IF s2.error # NoError THEN s2
            ELSE [s2 EXCEPT !.unfinished = @ \ {node.name},
                            !.visited = @ \cup {node.name},
                            !.sorted_nodes = IF node # first
                                             THEN InsertFront(@, node) ELSE @]

VisitSuccessors(succ, i, edges, first, st) ==
    IF i > Len(succ) \/ st.error # NoError THEN st
    ELSE VisitSuccessors(succ, i + 1, edges, first,
                         recursive_helper(succ[i], edges, first, st))

\* for nd_ in input_nodes: recursive_helper(nd_)
RECURSIVE VisitRoots(_, _, _, _)
VisitRoots(input_nodes, i, edges, st) ==
    IF i > Len(input_nodes) \/ st.error # NoError THEN st
    ELSE VisitRoots(input_nodes, i + 1, edges,
                    recursive_helper(input_nodes[i], edges, input_nodes[1], st))

\* The whole method.  Result: [error, node, tensor, sorted_nodes]; when
\* error # NoError nothing is returned and sorted_nodes is <<>>.
topological_sort(initializers, nodes, inputs, outputs) ==
    LET input_nodes == InputNodes(nodes, inputs, initializers)
        op_output_map == OpOutputMap(nodes, input_nodes)
        e0 == [edges |-> EmptyMap, error |-> NoError, node |-> "", tensor |-> ""]
        e1 == BuildEdges(nodes, 1, op_output_map, e0)
        e2 == AddOutputEdges(outputs, 1, op_output_map, e1)
        d0 == [visited |-> {}, unfinished |-> {}, sorted_nodes |-> <<>>,
               error |-> NoError, node |-> ""]
        d1 == VisitRoots(input_nodes, 1, e2.edges, d0)
    IN IF e2.error # NoError
       THEN [error |-> e2.error, node |-> e2.node, tensor |-> e2.tensor,
             sorted_nodes |-> <<>>]
       ELSE IF d1.error # NoError
       THEN [error |-> d1.error, node |-> d1.node, tensor |-> "",
             sorted_nodes |-> <<>>]
       ELSE [error |-> NoError, node |-> "", tensor |-> "",
             sorted_nodes |-> d1.sorted_nodes]

(***************************************************************************)
(* The node lists handed to topological_sort: up to MaxNodes nodes with    *)
(* pairwise-distinct non-empty names (the first node possibly named        *)
(* "placeholder"), every tensor produced at most once                      *)
(* (by one node, or declared as input "x" or initializer "w"), inputs      *)
(* drawn from all tensors of the graph, the empty slot "" and the          *)
(* undeclared tensor "u"; MaxSlots input slots in all.  The first node has *)
(* two outputs.  A Constant node has no inputs.                            *)
(***************************************************************************)
SortInputs == <<"x">>
SortInitializers == <<"w">>

\* the names a caller may give the i-th node: one of its own, and for the
\* first node also the name the method gives its DynNode
SortNodeNames(i) ==
    IF i = 1 THEN {"n1", "placeholder"} ELSE {"n" \o ToString(i)}

SortNodeOutput(i) ==
    IF i = 1 THEN <<"t1", "s1">> ELSE <<"t" \o ToString(i)>>

SortTensors(n) ==
    {"x", "w", "u", ""} \cup UNION {Range(SortNodeOutput(i)) : i \in 1..n}

\* the nodes a caller may append as the i-th node when `slots` input slots
\* are left
SortNodeChoices(i, slots) ==
    {[name |-> nm, op_type |-> "Constant", input |-> <<>>,
      output |-> SortNodeOutput(i)] : nm \in SortNodeNames(i)}
    \cup {[name |-> nm, op_type |-> "Op", input |-> inp,
           output |-> SortNodeOutput(i)] :
            nm \in SortNodeNames(i),
            inp \in UNION {SeqsOfLen(SortTensors(MaxNodes), k) : k \in 0..slots}}

RECURSIVE SlotsUsed(_)
SlotsUsed(nodes) ==
    IF nodes = <<>> THEN 0 ELSE Len(Head(nodes).input) + SlotsUsed(Tail(nodes))

\* the declared outputs: none, or the last node's last output
SortOutputs(nodes) ==
    {<<>>, <<nodes[Len(nodes)].output[Len(nodes[Len(nodes)].output)]>>}

(***************************************************************************)
(* The models handed to join_models: up to MaxModels graphs, each with     *)
(* one or two declared inputs, a node "a" consuming them (alone, with the  *)
(* initializer "w", or with an empty slot) and an unnamed node consuming   *)
(* a's output; the declared outputs are the second node's output, alone or *)
(* followed by the first declared input passed straight through.  Every    *)
(* graph declares its inputs under distinct names.  io_mapping is None or  *)
(* a function returning one entry: an input port of the last graph wired   *)
(* to an output port of the first.                                         *)
(***************************************************************************)
JoinGraph(inputs, extra, outputs) ==
    [name |-> IF Len(inputs) = 1 THEN "m" ELSE "mm",
     node |-> <<[name |-> "a", op_type |-> "Op", input |-> inputs \o extra,
                 output |-> <<"z">>],
                [name |-> "", op_type |-> "Op", input |-> <<"z">>,
                 output |-> <<"q">>]>>,
     input |-> inputs,
     output |-> outputs,
     initializer |-> <<"w", "v">>,
     value_info |-> <<"z">>,
     opset_import |-> IF Len(inputs) = 1
                      THEN <<[domain |-> "", version |-> "v13"]>>
                      ELSE <<[domain |-> "", version |-> "v12"],
                             [domain |-> "contrib", version |-> "v1"]>>]

JoinGraphs ==
    {JoinGraph(inputs, extra, outputs) :
        inputs \in {<<"x">>, <<"x", "y">>},
        extra \in {<<>>, <<"w">>, <<"">>},
        outputs \in {<<"q">>, <<"q", "x">>}}

IoMappings(models) ==
    {None} \cup
    (IF Len(models) < 2 THEN {}
     ELSE {[kind |-> "function", consumer |-> <<Len(models), j>>, producer |-> <<1, k>>] :
            j \in 1..Len(models[Len(models)].input),
            k \in 1..Len(models[1].output)})

(***************************************************************************)
(* The graphs handed to _rename_graph: up to MaxRenameNodes nodes, named   *)
(* or not, the names including the ones the method makes up for unnamed    *)
(* nodes; the container they are renamed into is empty or already holds    *)
(* entries.                                                                *)
(***************************************************************************)
RenameNodeChoices(i) ==
    {[name |-> nm, op_type |-> "Op", input |-> inp,
      output |-> <<"y" \o ToString(i)>>] :
        nm \in {"", "a", "op0", "op1"},
        inp \in {<<>>, <<"x">>, <<"x", "">>}}

RenamePrefixes == {"g1", "n"}

RenameContainers ==
    {[initializer |-> <<>>, value_info |-> <<>>],
     [initializer |-> <<"w">>, value_info |-> <<"y1">>]}

(***************************************************************************)
(* The arguments of _remove_unused_initializers: up to MaxPruneNodes       *)
(* nodes, an initializer list and the caller's set of names to keep.       *)
(***************************************************************************)
PruneNodeChoices(i) ==
    {[name |-> "n" \o ToString(i), op_type |-> "Op", input |-> inp,
      output |-> <<"y" \o ToString(i)>>] :
        inp \in {<<>>, <<"w">>, <<"x", "v">>, <<"", "w">>, <<"k">>}}

PruneInitializers == {<<"v", "w", "k">>, <<"k", "w">>}

PruneKeepSets == {{}, {"k"}, {"v", "u"}}

(***************************************************************************)
(* State machine.  call is the method the caller is about to call; while   *)
(* pc = "idle" the caller assembles the arguments in arg, the call takes   *)
(* pc to "returned" and puts its result in res.                            *)
(***************************************************************************)
NoResult == [error |-> "no call"]

Args0(method) ==
    CASE method = "topological_sort" ->
            [initializers |-> SortInitializers, nodes |-> <<>>,
             inputs |-> SortInputs, outputs |-> <<>>]
      [] method = "join_models" ->
            [models |-> <<>>, io_mapping |-> None]
      [] method = "_rename_graph" ->
            [graph |-> [node |-> <<>>, initializer |-> <<"w">>, value_info |-> <<"y1">>],
             prefix |-> "g1",
             graph_or_container |-> [initializer |-> <<>>, value_info |-> <<>>]]
      [] method = "_remove_unused_initializers" ->
            [nodes |-> <<>>, initializers |-> <<>>, reversed_names |-> {}]

InitFor(method) ==
    /\ pc = "idle"
    /\ call = method
    /\ arg = Args0(method)
    /\ res = NoResult

InitSort == InitFor("topological_sort")
InitJoin == InitFor("join_models")
InitRename == InitFor("_rename_graph")
InitPrune == InitFor("_remove_unused_initializers")

Init == InitSort \/ InitJoin \/ InitRename \/ InitPrune

\* the caller puts one more node on the list it is going to sort
AppendNode ==
    /\ pc = "idle" /\ call = "topological_sort"
    /\ Len(arg.nodes) < MaxNodes
    /\ \E nd \in SortNodeChoices(Len(arg.nodes) + 1, MaxSlots - SlotsUsed(arg.nodes)) :
          arg' = [arg EXCEPT !.nodes = Append(@, nd)]
    /\ UNCHANGED <<pc, call, res>>

TopologicalSortCall ==
    /\ pc = "idle" /\ call = "topological_sort"
    /\ arg.nodes # <<>>
    /\ \E outputs \in SortOutputs(arg.nodes) :
          /\ arg' = [arg EXCEPT !.outputs = outputs]
          /\ res' = topological_sort(arg.initializers, arg.nodes, arg.inputs, outputs)
    /\ pc' = "returned"
    /\ UNCHANGED call

\* the caller puts one more model on the list it is going to join
AppendModel ==
    /\ pc = "idle" /\ call = "join_models"
    /\ Len(arg.models) < MaxModels
    /\ \E m \in JoinGraphs : arg' = [arg EXCEPT !.models = Append(@, m)]
    /\ UNCHANGED <<pc, call, res>>

JoinModelsCall ==
    /\ pc = "idle" /\ call = "join_models"
    /\ arg.models # <<>>
    /\ \E f \in IoMappings(arg.models) :
          /\ arg' = [arg EXCEPT !.io_mapping = f]
          /\ res' = join_models(arg.models, f)
    /\ pc' = "returned"
    /\ UNCHANGED call

\* the caller puts one more node into the graph it is going to rename
AppendRenameNode ==
    /\ pc = "idle" /\ call = "_rename_graph"
    /\ Len(arg.graph.node) < MaxRenameNodes
    /\ \E nd \in RenameNodeChoices(Len(arg.graph.node) + 1) :
          arg' = [arg EXCEPT !.graph.node = Append(@, nd)]
    /\ UNCHANGED <<pc, call, res>>

RenameGraphCall ==
    /\ pc = "idle" /\ call = "_rename_graph"
    /\ \E prefix \in RenamePrefixes, c \in RenameContainers :
          /\ arg' = [arg EXCEPT !.prefix = prefix, !.graph_or_container = c]
          /\ res' = _rename_graph(arg.graph, prefix, c)
    /\ pc' = "returned"
    /\ UNCHANGED call

\* the caller puts one more node on the list it is going to prune against
AppendPruneNode ==
    /\ pc = "idle" /\ call = "_remove_unused_initializers"
    /\ Len(arg.nodes) < MaxPruneNodes
    /\ \E nd \in PruneNodeChoices(Len(arg.nodes) + 1) :
          arg' = [arg EXCEPT !.nodes = Append(@, nd)]
    /\ UNCHANGED <<pc, call, res>>

RemoveUnusedInitializersCall ==
    /\ pc = "idle" /\ call = "_remove_unused_initializers"
    /\ \E inits \in PruneInitializers, keep \in PruneKeepSets :
          /\ arg' = [arg EXCEPT !.initializers = inits, !.reversed_names = keep]
          /\ res' = _remove_unused_initializers(arg.nodes, inits, keep)
    /\ pc' = "returned"
    /\ UNCHANGED call

\* the caller drops the result and starts on the next call
Return ==
    /\ pc = "returned"
    /\ pc' = "idle"
    /\ arg' = Args0(call)
    /\ res' = NoResult
    /\ UNCHANGED call

NextSort == AppendNode \/ TopologicalSortCall \/ Return
NextJoin == AppendModel \/ JoinModelsCall \/ Return
NextRename == AppendRenameNode \/ RenameGraphCall \/ Return
NextPrune ==
    \/ AppendPruneNode \/ RemoveUnusedInitializersCall
    \/ AppendModel \/ JoinModelsCall
    \/ Return

Next == NextSort \/ NextJoin \/ NextRename \/ NextPrune

SpecSort == InitSort /\ [][NextSort]_vars
SpecJoin == InitJoin /\ [][NextJoin]_vars
SpecRename == InitRename /\ [][NextRename]_vars
\* the pruner alone and as join_models uses it
SpecPrune == (InitPrune \/ InitJoin) /\ [][NextPrune]_vars
Spec == Init /\ [][Next]_vars

(***************************************************************************)
(* Notions the statements about topological_sort are phrased in.           *)
(***************************************************************************)
Sorting == call = "topological_sort" /\ pc = "returned"

\* the tensors with a producer: declared inputs, initializers, node outputs
Produced(a) ==
    Range(a.inputs) \cup Range(a.initializers)
        \cup UNION {Range(a.nodes[i].output) : i \in 1..Len(a.nodes)}

\* the (node index, input) pairs that name a tensor nobody produces
DanglingRefs(a) ==
    {<<i, x>> \in (1..Len(a.nodes)) \X (UNION {Range(a.nodes[i].input) : i \in 1..Len(a.nodes)}) :
        x \in Range(a.nodes[i].input) /\ x # "" /\ x \notin Produced(a)}

\* C consumes an output of P
DependsOn(C, P) ==
    \E x \in Range(C.input) : x # "" /\ x \in Range(P.output)

ConsumersOf(nodes, i) == {j \in 1..Len(nodes) : DependsOn(nodes[j], nodes[i])}

RECURSIVE Downstream(_, _)
Downstream(nodes, S) ==
    LET T == S \cup UNION {ConsumersOf(nodes, i) : i \in S}
    IN IF T = S THEN S ELSE Downstream(nodes, T)

OnCycle(nodes, i) == i \in Downstream(nodes, ConsumersOf(nodes, i))

Cyclic(nodes) == \E i \in 1..Len(nodes) : OnCycle(nodes, i)

Occurrences(s, e) == Cardinality({i \in 1..Len(s) : s[i] = e})

IsPermutation(s, t) ==
    /\ Len(s) = Len(t)
    /\ \A i \in 1..Len(t) : Occurrences(s, t[i]) = 1

\* the caller's nodes have names of their own: none is unnamed, none bears
\* the name of the method's DynNode
OwnNames(nodes) ==
    \A i \in 1..Len(nodes) : nodes[i].name \notin {"", "placeholder"}

\* C3: topological_sort of an acyclic node list (distinct non-empty names,
\* every non-empty input produced) returns a permutation of the input nodes,
\* each node exactly once, also nodes without inputs that are not Constant.
C3_SortReturnsPermutation ==
    (Sorting /\ OwnNames(arg.nodes) /\ ~Cyclic(arg.nodes) /\ DanglingRefs(arg) = {})
        => (res.error = NoError /\ IsPermutation(res.sorted_nodes, arg.nodes))

\* C4: topological_sort of a node list with a data-dependency cycle (here:
\* one through two or more nodes, no node consuming its own output, every
\* input produced) fails with the "not a DAG" error naming a node on a
\* cycle, also when the cycle cannot be reached from a declared input,
\* initializer or Constant node.
C4_CycleAlwaysDetected ==
    (/\ Sorting /\ OwnNames(arg.nodes) /\ DanglingRefs(arg) = {}
     /\ Cyclic(arg.nodes)
     /\ \A i \in 1..Len(arg.nodes) : ~DependsOn(arg.nodes[i], arg.nodes[i]))
        => /\ res.error = "ONNX Graph is not a DAG"
           /\ \E i \in 1..Len(arg.nodes) :
                 arg.nodes[i].name = res.node /\ OnCycle(arg.nodes, i)

\* C5: a list returned by topological_sort is a valid topological order of
\* the nodes in it: a producer stands before each of its consumers, and no
\* node stands in it twice.
C5_ValidTopologicalOrder ==
    (Sorting /\ res.error = NoError)
        => /\ \A i, j \in 1..Len(res.sorted_nodes) :
                 DependsOn(res.sorted_nodes[j], res.sorted_nodes[i]) => i < j
           /\ \A i \in 1..Len(res.sorted_nodes) :
                 /\ Occurrences(res.sorted_nodes, res.sorted_nodes[i]) = 1
                 /\ res.sorted_nodes[i] \in Range(arg.nodes)

\* a returned list in which a node consumes two outputs of one producer and
\* stands after it
C5_Witness ==
    /\ Sorting /\ res.error = NoError
    /\ \E i, j \in 1..Len(res.sorted_nodes) :
          /\ i < j
          /\ Cardinality(Range(res.sorted_nodes[j].input)
                            \cap Range(res.sorted_nodes[i].output)) = 2

\* C6: topological_sort raises the "cannot find an operator" error, naming
\* a node and a non-empty tensor of it that nothing produces, exactly when
\* some node of the list (reached by the traversal or not) has such an
\* input; the empty slot never raises it; nothing is returned with it.
C6_DanglingReferenceFails ==
    Sorting =>
        /\ (DanglingRefs(arg) # {}) <=>
              (res.error = "cannot find an operator to produce the tensor")
        /\ (res.error = "cannot find an operator to produce the tensor") =>
              /\ res.tensor # ""
              /\ res.sorted_nodes = <<>>
              /\ \E r \in DanglingRefs(arg) :
                    arg.nodes[r[1]].name = res.node /\ r[2] = res.tensor

\* the error raised for a node no root leads to, in a list that also has an
\* empty slot
C6_Witness ==
    /\ Sorting
    /\ res.error = "cannot find an operator to produce the tensor"
    /\ \E i \in 1..Len(arg.nodes) :
          /\ arg.nodes[i].name = res.node
          /\ arg.nodes[i].op_type # "Constant"
          /\ Range(arg.nodes[i].input) \cap (Produced(arg) \cup {""}) = {}
    /\ \E i \in 1..Len(arg.nodes) :
          /\ "" \in Range(arg.nodes[i].input)
          /\ Range(arg.nodes[i].input) \subseteq (Produced(arg) \cup {""})

(***************************************************************************)
(* Notions the statements about join_models are phrased in.                *)
(***************************************************************************)
Joined == call = "join_models" /\ pc = "returned" /\ res.error = NoError

\* the prefix of the k-th graph
G(k) == "g" \o ToString(k)

\* where the n-th node of the m-th graph stands in the merged node list
RECURSIVE NodesBefore(_, _)
NodesBefore(models, m) ==
    IF m = 1 THEN 0 ELSE NodesBefore(models, m - 1) + Len(models[m - 1].node)

MergedNode(m, n) == res.model.graph.node[NodesBefore(arg.models, m) + n]

\* the position of name x among the declared inputs (0: not declared)
InputIndex(g, x) ==
    IF x \in Range(g.input)
    THEN CHOOSE j \in 1..Len(g.input) :
            g.input[j] = x /\ \A i \in 1..(j - 1) : g.input[i] # x
    ELSE 0

\* what default positional wiring makes of input x of a node of graph m:
\* the empty slot stays empty, a declared input of a graph after the first
\* becomes the same-index output of the graph before, under that graph's
\* prefix, anything else is x under its own graph's prefix
DefaultWired(models, m, x) ==
    IF x = "" THEN ""
    ELSE IF m >= 2 /\ InputIndex(models[m], x) > 0
    THEN G(m - 1) \o "_" \o models[m - 1].output[InputIndex(models[m], x)]
    ELSE G(m) \o "_" \o x

\* C1: join_models of N >= 2 models without io_mapping: a node input that
\* names the j-th declared input of graph i+1 becomes g<i>_<j-th declared
\* output of graph i>; every other node input is its source name under its
\* own graph's prefix (the empty slot staying the empty slot).
C1_DefaultPositionalWiring ==
    (Joined /\ arg.io_mapping = None /\ Len(arg.models) >= 2) =>
        \A m \in 1..Len(arg.models) :
        \A n \in 1..Len(arg.models[m].node) :
            /\ Len(MergedNode(m, n).input) = Len(arg.models[m].node[n].input)
            /\ \A p \in 1..Len(arg.models[m].node[n].input) :
                  MergedNode(m, n).input[p]
                     = DefaultWired(arg.models, m, arg.models[m].node[n].input[p])

\* three graphs joined by default, the last with two declared inputs, the
\* second of them consumed by a node that now reads the second output of
\* the graph before, next to an initializer of its own graph
C1_Witness ==
    /\ Joined /\ arg.io_mapping = None /\ Len(arg.models) = 3
    /\ Len(arg.models[3].input) = 2
    /\ \E n \in 1..Len(arg.models[3].node) :
       \E p \in 1..Len(arg.models[3].node[n].input) :
          /\ arg.models[3].node[n].input[p] = arg.models[3].input[2]
          /\ MergedNode(3, n).input[p] = "g2_" \o arg.models[2].output[2]
          /\ "g3_w" \in Range(MergedNode(3, n).input)

\* a graph whose references all resolve: every non-empty node input is a
\* declared input, an initializer or a node output, and so is every
\* declared output
WellFormed(g) ==
    LET produced == Range(g.input) \cup Range(g.initializer)
                      \cup UNION {Range(g.node[n].output) : n \in 1..Len(g.node)}
    IN /\ \A n \in 1..Len(g.node) : Range(g.node[n].input) \subseteq produced \cup {""}
       /\ Range(g.output) \subseteq produced

AritiesMatch(models) ==
    \A i \in 1..(Len(models) - 1) : Len(models[i].output) = Len(models[i + 1].input)

\* C2: the model join_models returns for well-formed graphs of matching
\* arities is well-formed: every non-empty node input is a declared input,
\* a retained initializer or a node output of the merged model, and every
\* declared output has a producer, also when a graph passes a declared
\* input straight through as a declared output.
C2_MergedModelWellFormed ==
    (/\ Joined /\ arg.io_mapping = None
     /\ \A m \in 1..Len(arg.models) : WellFormed(arg.models[m])
     /\ AritiesMatch(arg.models))
        => WellFormed(res.model.graph)

\* the one entry the caller's function returns, by the names of the ports
MappedConsumer(a) ==
    G(a.io_mapping.consumer[1]) \o "_"
        \o a.models[a.io_mapping.consumer[1]].input[a.io_mapping.consumer[2]]

MappedProducer(a) ==
    G(a.io_mapping.producer[1]) \o "_"
        \o a.models[a.io_mapping.producer[1]].output[a.io_mapping.producer[2]]

\* C7: with an io_mapping function, a node input that was a consumer name
\* the function returned becomes the function's producer for it, whatever
\* graph the producer is in; default positional wiring applies to the
\* other declared inputs of graphs 2..N only.
C7_ExplicitMappingWins ==
    (Joined /\ arg.io_mapping # None) =>
        \A m \in 1..Len(arg.models) :
        \A n \in 1..Len(arg.models[m].node) :
        \A p \in 1..Len(arg.models[m].node[n].input) :
            LET x == arg.models[m].node[n].input[p] IN
            MergedNode(m, n).input[p]
               = IF x # "" /\ G(m) \o "_" \o x = MappedConsumer(arg)
                 THEN MappedProducer(arg)
                 ELSE DefaultWired(arg.models, m, x)

\* three graphs, the function wiring an input of the third to an output of
\* the first where default wiring would have taken an output of the second
C7_Witness ==
    /\ Joined /\ arg.io_mapping # None /\ Len(arg.models) = 3
    /\ \E n \in 1..Len(arg.models[3].node) :
       \E p \in 1..Len(arg.models[3].node[n].input) :
          /\ G(3) \o "_" \o arg.models[3].node[n].input[p] = MappedConsumer(arg)
          /\ MergedNode(3, n).input[p] = "g1_" \o arg.models[1].output[arg.io_mapping.producer[2]]
          /\ MergedNode(3, n).input[p] # DefaultWired(arg.models, 3, arg.models[3].node[n].input[p])
    /\ \E n \in 1..Len(arg.models[2].node) :
          \E p \in 1..Len(arg.models[2].node[n].input) :
             /\ arg.models[2].node[n].input[p] \in Range(arg.models[2].input)
             /\ MergedNode(2, n).input[p]
                   = DefaultWired(arg.models, 2, arg.models[2].node[n].input[p])

\* the records of field f of all graphs, each under its graph's prefix
RECURSIVE PrefixedPool(_, _, _)
PrefixedPool(models, m, f) ==
    IF m > Len(models) THEN <<>>
    ELSE [i \in 1..Len(models[m][f]) |-> G(m) \o "_" \o models[m][f][i]]
            \o PrefixedPool(models, m + 1, f)

\* C8: the value-info pool of the model join_models returns holds exactly
\* one record per value-info record of the input graphs, named
\* g<k>_<source name>, and every initializer of the result is named
\* g<k>_<source name>; nothing is in the result under its un-prefixed name.
C8_PoolsHoldPrefixedRecordsOnly ==
    Joined =>
        LET vi == PrefixedPool(arg.models, 1, "value_info")
            iz == PrefixedPool(arg.models, 1, "initializer")
        IN /\ Len(res.model.graph.value_info) = Len(vi)
           /\ \A i \in 1..Len(vi) :
                 Occurrences(res.model.graph.value_info, vi[i]) = Occurrences(vi, vi[i])
           /\ Range(res.model.graph.initializer) \subseteq Range(iz)

(***************************************************************************)
(* _remove_unused_initializers                                             *)
(***************************************************************************)
Pruned == call = "_remove_unused_initializers" /\ pc = "returned"

\* the entries of s at the positions in P, in their order in s
RECURSIVE SubSeqAt(_, _, _)
SubSeqAt(s, P, i) ==
    IF i > Len(s) THEN <<>>
    ELSE (IF i \in P THEN <<s[i]>> ELSE <<>>) \o SubSeqAt(s, P, i + 1)

Referenced(nodes, name) == \E n \in 1..Len(nodes) : name \in Range(nodes[n].input)

\* C9: _remove_unused_initializers returns exactly the initializers named
\* in some node's input list or in the keep set, in their original order,
\* and leaves the node list and the initializer list as they were; in the
\* model join_models returns every initializer is referenced by a merged
\* node and every node still has all its outputs.
C9_PrunerKeepsReferenced ==
    /\ Pruned =>
          /\ res.ret = SubSeqAt(arg.initializers,
                         {i \in 1..Len(arg.initializers) :
                             \/ Referenced(arg.nodes, arg.initializers[i])
                             \/ arg.initializers[i] \in arg.reversed_names}, 1)
          /\ res.nodes = arg.nodes
          /\ res.initializers = arg.initializers
    /\ Joined =>
          /\ \A i \in 1..Len(res.model.graph.initializer) :
                Referenced(res.model.graph.node, res.model.graph.initializer[i])
          /\ Len(res.model.graph.node) = NodesBefore(arg.models, Len(arg.models) + 1)
          /\ \A m \in 1..Len(arg.models) :
             \A n \in 1..Len(arg.models[m].node) :
                MergedNode(m, n).output
                   = [p \in 1..Len(arg.models[m].node[n].output) |->
                         G(m) \o "_" \o arg.models[m].node[n].output[p]]

\* a call that drops an initializer, keeps one for a node's sake and keeps
\* another, standing before it, for the keep set's sake alone
C9_Witness ==
    /\ Pruned
    /\ Len(res.ret) = 2 /\ Len(arg.initializers) = 3
    /\ ~Referenced(arg.nodes, res.ret[1]) /\ res.ret[1] \in arg.reversed_names
    /\ Referenced(arg.nodes, res.ret[2]) /\ res.ret[2] \notin arg.reversed_names

(***************************************************************************)
(* _rename_graph                                                           *)
(***************************************************************************)
Renamed == call = "_rename_graph" /\ pc = "returned"

\* C10: _rename_graph names the unnamed node at position i <prefix>_op<i>
\* and the node named n <prefix>_n, leaves the source nodes unchanged, and
\* gives pairwise-distinct names whenever the non-empty source names are
\* pairwise distinct.
C10_RenamedNodeNamesUnique ==
    (/\ Renamed
     /\ \A i, j \in 1..Len(arg.graph.node) :
           (i # j /\ arg.graph.node[i].name # "")
              => arg.graph.node[i].name # arg.graph.node[j].name)
        => /\ Len(res.ret) = Len(arg.graph.node)
           /\ \A i \in 1..Len(arg.graph.node) :
                 res.ret[i].name
                    = IF arg.graph.node[i].name = ""
                      THEN arg.prefix \o "_op" \o ToString(i - 1)
                      ELSE arg.prefix \o "_" \o arg.graph.node[i].name
           /\ res.graph = arg.graph
           /\ \A i, j \in 1..Len(res.ret) : i # j => res.ret[i].name # res.ret[j].name

====
